---- MODULE Spec2Model ----
(***************************************************************************)
(* GramaSarathi: the two-stage eligibility screening of utils.py           *)
(* (validate_input, filter_schemes, evaluate_step2) and the /results and   *)
(* /finalize handlers of app.py that hand the stage-one matches over in    *)
(* the session.                                                            *)
(*                                                                         *)
(* A Python str is a tuple of one-character strings, so that int(), lower()*)
(* and isdigit() are computed character by character.  An optional value   *)
(* (dict.get returning None) is a record [some, s].                        *)
(***************************************************************************)
EXTENDS Integers, Sequences, FiniteSets, TLC

VARIABLES call, schemes_file, session, response, ghost

vars == <<call, schemes_file, session, response, ghost>>

(* ------------------------------ bounds -------------------------------- *)

\* longest scheme list passed to filter_schemes / evaluate_step2
MaxSchemes == 2
\* user ages and incomes, and scheme limits, range over 0..MaxVal
MaxVal == 2

(* ------------------------- Python values ------------------------------ *)

None == [some |-> FALSE, s |-> <<>>]

Str(t) == [some |-> TRUE, s |-> t]

\* truthiness of an optional str: None and "" are falsy
Truthy(x) == x.some /\ x.s # <<>>

DigitChars == <<"0", "1", "2", "3", "4", "5", "6", "7", "8", "9">>

UpperChars == <<"A", "B", "C", "D", "E", "F", "G", "H", "I", "J", "K", "L", "M", "N", "O", "P", "Q", "R", "S", "T", "U", "V", "W", "X", "Y", "Z">>

LowerChars == <<"a", "b", "c", "d", "e", "f", "g", "h", "i", "j", "k", "l", "m", "n", "o", "p", "q", "r", "s", "t", "u", "v", "w", "x", "y", "z">>

IsDigit(c) == \E i \in 1..10 : DigitChars[i] = c

DigitVal(c) == (CHOOSE i \in 1..10 : DigitChars[i] = c) - 1

LowerChar(c) ==
    IF \E i \in 1..26 : UpperChars[i] = c
    THEN LowerChars[CHOOSE i \in 1..26 : UpperChars[i] = c]
    ELSE c

\* str.lower()
lower(s) == [i \in 1..Len(s) |-> LowerChar(s[i])]

\* str.isdigit()
isdigit(s) == Len(s) > 0 /\ \A i \in 1..Len(s) : IsDigit(s[i])

RECURSIVE LStrip(_)
LStrip(s) == IF s # <<>> /\ Head(s) = " " THEN LStrip(Tail(s)) ELSE s

RECURSIVE RStrip(_)
RStrip(s) ==
    IF s # <<>> /\ s[Len(s)] = " " THEN RStrip(SubSeq(s, 1, Len(s) - 1)) ELSE s

RECURSIVE DigitsValue(_, _)
DigitsValue(s, acc) ==
    IF s = <<>> THEN acc
    ELSE IF Head(s) = "_" THEN DigitsValue(Tail(s), acc)
    ELSE DigitsValue(Tail(s), 10 * acc + DigitVal(Head(s)))

\* the digit part of an integer literal: digits, single underscores between
WellFormedDigits(s) ==
    /\ s # <<>>
    /\ \A i \in 1..Len(s) : IsDigit(s[i]) \/ s[i] = "_"
    /\ IsDigit(s[1]) /\ IsDigit(s[Len(s)])
    /\ \A i \in 1..(Len(s) - 1) : ~(s[i] = "_" /\ s[i + 1] = "_")

\* int(str): surrounding blanks stripped, an optional sign, decimal digits;
\* anything else raises ValueError (ok = FALSE)
int(s) ==
    LET t == RStrip(LStrip(s))
        signed == t # <<>> /\ Head(t) \in {"+", "-"}
        body == IF signed THEN Tail(t) ELSE t
    IN  IF WellFormedDigits(body)
        THEN [ok |-> TRUE,
              v |-> IF signed /\ Head(t) = "-"
                    THEN 0 - DigitsValue(body, 0)
                    ELSE DigitsValue(body, 0)]
        ELSE [ok |-> FALSE, v |-> 0]

RECURSIVE NatStr(_)
NatStr(n) ==
    IF n < 10 THEN <<DigitChars[n + 1]>>
    ELSE NatStr(n \div 10) \o <<DigitChars[(n % 10) + 1]>>

\* str(int)
str(n) == IF n < 0 THEN <<"-">> \o NatStr(0 - n) ELSE NatStr(n)

(* --------------------------- validate_input --------------------------- *)

AGE_MIN == 0

AGE_MAX == 150

INCOME_MIN == 0

required_fields == <<"gender", "caste", "district", "occupation", "location">>

\* field.replace('_', ' ').title() of the five names of required_fields
display_field_name(field) ==
    CASE field = "gender" -> "Gender"
      [] field = "caste" -> "Caste"
      [] field = "district" -> "District"
      [] field = "occupation" -> "Occupation"
      [] field = "location" -> "Location"

\* what validate_input returns: True, or an error message (a str)
ReturnTrue == [isstr |-> FALSE, msg |-> ""]

ReturnStr(m) == [isstr |-> TRUE, msg |-> m]

\* mutant: the lower limit taken as exclusive
AgeInRange_exclusive(age) == AGE_MIN < age /\ age <= AGE_MAX

AgeInRange(age) == AGE_MIN <= age /\ age <= AGE_MAX

IncomeNegative(income) == income < INCOME_MIN

\* the age block; [done, ret]: done when the block returned
ValidateAge(data) ==
    LET age_str == data.age
    IN  IF ~Truthy(age_str)
        THEN [done |-> TRUE, ret |-> ReturnStr("Age is a required field.")]
        ELSE IF ~int(age_str.s).ok
        THEN [done |-> TRUE,
              ret |-> ReturnStr("Invalid age value. Please enter a number.")]
        ELSE IF ~AgeInRange(int(age_str.s).v)
        THEN [done |-> TRUE, ret |-> ReturnStr("Age must be between 0 and 150.")]
        ELSE [done |-> FALSE, ret |-> ReturnTrue]

ValidateIncome(data) ==
    LET income_str == data.income
    IN  IF ~Truthy(income_str)
        THEN [done |-> TRUE,
              ret |-> ReturnStr("Annual Income is a required field.")]
        ELSE IF ~int(income_str.s).ok
        THEN [done |-> TRUE,
              ret |-> ReturnStr("Invalid annual income value. Please select a valid range.")]
        ELSE IF IncomeNegative(int(income_str.s).v)
        THEN [done |-> TRUE, ret |-> ReturnStr("Annual Income cannot be negative.")]
        ELSE [done |-> FALSE, ret |-> ReturnTrue]

\* the loop over required_fields from position i on
RECURSIVE ValidateRequired(_, _)
ValidateRequired(data, i) ==
    IF i > Len(required_fields) THEN ReturnTrue
    ELSE IF ~Truthy(data[required_fields[i]])
    THEN ReturnStr("Missing required field: "
                   \o display_field_name(required_fields[i]) \o ".")
    ELSE ValidateRequired(data, i + 1)

\* mutant: the income block run before the age block
validate_input_income_first(data) ==
    IF ValidateIncome(data).done THEN ValidateIncome(data).ret
    ELSE IF ValidateAge(data).done THEN ValidateAge(data).ret
    ELSE ValidateRequired(data, 1)

validate_input(data) ==
    IF ValidateAge(data).done THEN ValidateAge(data).ret
    ELSE IF ValidateIncome(data).done THEN ValidateIncome(data).ret
    ELSE ValidateRequired(data, 1)

(* ------------------------------ schemes ------------------------------- *)

\* a criterion of the "eligibility" dict: absent (elig.get gives None or the
\* default), a number, or a list
Absent == [kind |-> "absent", n |-> 0, v |-> <<>>]

Num(x) == [kind |-> "num", n |-> x, v |-> <<>>]

List(l) == [kind |-> "list", n |-> 0, v |-> l]

Axes == {"age_range", "gender", "caste", "income_limit", "occupation", "location"}

NoEligibility == [a \in Axes |-> Absent]

\* scheme["final_eligible"]: the key is not there until evaluate_step2 sets it
Unset == [set |-> FALSE, v |-> FALSE]

Flag(b) == [set |-> TRUE, v |-> b]

\* "step2_question": absent, or a dict whose "question" and "expected_answer"
\* are each absent, null or a str
NoStep2 == [kind |-> "absent", question |-> None, expected_kind |-> "absent", expected |-> <<>>]

(* --------------------------- filter_schemes --------------------------- *)

\* [x.lower() for x in elig.get(axis, [])]
LowerList(crit) == [i \in 1..Len(crit.v) |-> lower(crit.v[i])]

InList(x, l) == \E i \in 1..Len(l) : l[i] = x

\* 1. if age_range and not (age_range[0] <= age <= age_range[1])
AgeFails(age_range, age) ==
    /\ age_range.kind = "list" /\ age_range.v # <<>>
    /\ ~(age_range.v[1] <= age /\ age <= age_range.v[2])

\* mutant: the scheme's values compared without lowercasing them
SetFails_case_sensitive(crit, sentinel, value) ==
    crit.v # <<>> /\ ~InList(sentinel, crit.v) /\ ~InList(value, crit.v)

\* 2, 3, 5, 6. if lst and sentinel not in lst and value not in lst
SetFails(crit, sentinel, value) ==
    LET lst == LowerList(crit)
    IN  lst # <<>> /\ ~InList(sentinel, lst) /\ ~InList(value, lst)

\* mutant: the scalar limit taken as exclusive
IncomeFails_strict(scheme_income_limit, income) ==
    IF scheme_income_limit.kind = "absent" THEN FALSE
    ELSE IF scheme_income_limit.kind = "num"
    THEN income >= scheme_income_limit.n
    ELSE IF scheme_income_limit.kind = "list" /\ Len(scheme_income_limit.v) = 2
    THEN ~(scheme_income_limit.v[1] <= income /\ income <= scheme_income_limit.v[2])
    ELSE FALSE

\* 4. the income check: a number is an upper bound, a list of two a range,
\* anything else is no constraint
IncomeFails(scheme_income_limit, income) ==
    IF scheme_income_limit.kind = "absent" THEN FALSE
    ELSE IF scheme_income_limit.kind = "num"
    THEN income > scheme_income_limit.n
    ELSE IF scheme_income_limit.kind = "list" /\ Len(scheme_income_limit.v) = 2
    THEN ~(scheme_income_limit.v[1] <= income /\ income <= scheme_income_limit.v[2])
    ELSE FALSE

\* mutant: the location check assigns is_eligible instead of clearing it
is_eligible_last_check_wins(scheme, user_input) ==
    ~SetFails(scheme.eligibility.location, <<"a", "l", "l">>, lower(user_input.location.s))

\* the body of the loop: is_eligible starts True and each failing check
\* clears it
is_eligible(scheme, user_input) ==
    LET elig == scheme.eligibility
        age == int(user_input.age.s).v
        caste == lower(user_input.caste.s)
        gender == lower(user_input.gender.s)
        income == int(user_input.income.s).v
        occupation == lower(user_input.occupation.s)
        location == lower(user_input.location.s)
        e0 == TRUE
        e1 == IF AgeFails(elig.age_range, age) THEN FALSE ELSE e0
        e2 == IF SetFails(elig.gender, <<"a", "l", "l">>, gender) THEN FALSE ELSE e1
        e3 == IF SetFails(elig.caste, <<"a", "l", "l">>, caste) THEN FALSE ELSE e2
        e4 == IF IncomeFails(elig.income_limit, income) THEN FALSE ELSE e3
        e5 == IF SetFails(elig.occupation, <<"a", "n", "y">>, occupation) THEN FALSE ELSE e4
        e6 == IF SetFails(elig.location, <<"a", "l", "l">>, location) THEN FALSE ELSE e5
    IN  e6

\* for scheme in schemes: ... if is_eligible: filtered.append(scheme)
RECURSIVE FilterLoop(_, _, _, _)
FilterLoop(schemes, user_input, i, filtered) ==
    IF i > Len(schemes) THEN filtered
    ELSE FilterLoop(schemes, user_input, i + 1,
                    IF is_eligible(schemes[i], user_input)
                    THEN Append(filtered, schemes[i])
                    ELSE filtered)

\* returns {"error": msg} or the list of eligible schemes
filter_schemes(schemes, user_input) ==
    LET validation_result == validate_input(user_input)
    IN  IF validation_result.isstr
        THEN [iserr |-> TRUE, error |-> validation_result.msg, list |-> <<>>]
        ELSE [iserr |-> FALSE, error |-> "",
              list |-> FilterLoop(schemes, user_input, 1, <<>>)]

(* --------------------------- evaluate_step2 --------------------------- *)

\* answers.get(question_id, "")
AnswerGet(answers, question_id) ==
    IF question_id \in DOMAIN answers THEN answers[question_id] ELSE <<>>

\* if step2 and step2.get("question"): a non-empty dict with a non-empty
\* question text
HasQuestion(scheme) ==
    LET step2 == scheme.step2_question
    IN  /\ step2.kind = "dict"
        /\ (step2.question.some \/ step2.expected_kind # "absent")
        /\ Truthy(step2.question)

\* step2.get("expected_answer", "")
ExpectedGet(step2) == IF step2.expected_kind = "str" THEN step2.expected ELSE <<>>

\* mutant: the submitted answer compared without lowercasing it
AnswerMatches_case_sensitive(scheme, answers) ==
    AnswerGet(answers, str(scheme.id.v)) = lower(ExpectedGet(scheme.step2_question))

\* (user_ans == expected), both lowercased
AnswerMatches(scheme, answers) ==
    lower(AnswerGet(answers, str(scheme.id.v))) = lower(ExpectedGet(scheme.step2_question))

\* the exception the loop body raises on this scheme, or "none":
\* scheme["id"] on a missing key, .lower() on a null expected_answer
Step2Raises(scheme) ==
    IF ~HasQuestion(scheme) THEN "none"
    ELSE IF ~scheme.id.some THEN "KeyError"
    ELSE IF scheme.step2_question.expected_kind = "null" THEN "AttributeError"
    ELSE "none"

\* the value the loop body stores under "final_eligible"
Step2Value(scheme, answers) ==
    IF HasQuestion(scheme) THEN AnswerMatches(scheme, answers) ELSE TRUE

\* mutant: setdefault, a final_eligible already there is kept
SetFinalEligible_setdefault(scheme, value) ==
    IF scheme.final_eligible.set THEN scheme
    ELSE [scheme EXCEPT !.final_eligible = Flag(value)]

\* scheme["final_eligible"] = value: the dict is changed in place
SetFinalEligible(scheme, value) == [scheme EXCEPT !.final_eligible = Flag(value)]

\* for scheme in schemes: ...; the list as the loop leaves it, and the
\* exception that ended it ("none" when it returned schemes)
RECURSIVE evaluate_step2_loop(_, _, _)
evaluate_step2_loop(schemes, answers, i) ==
    IF i > Len(schemes) THEN [schemes |-> schemes, raised |-> "none"]
    ELSE IF Step2Raises(schemes[i]) # "none"
    THEN [schemes |-> schemes, raised |-> Step2Raises(schemes[i])]
    ELSE evaluate_step2_loop(
             [schemes EXCEPT ![i] = SetFinalEligible(@, Step2Value(@, answers))],
             answers, i + 1)

evaluate_step2(schemes, answers) == evaluate_step2_loop(schemes, answers, 1)

(* ------------------------- inputs of the calls ------------------------ *)

Id(n) == [some |-> TRUE, v |-> n]

NoId == [some |-> FALSE, v |-> 0]

Scheme(id, elig, step2) ==
    [id |-> id, eligibility |-> elig, step2_question |-> step2,
     final_eligible |-> Unset]

Question(q, ekind, e) ==
    [kind |-> "dict", question |-> q, expected_kind |-> ekind, expected |-> e]

UserInput(age, income, gender, caste, district, occupation, location) ==
    [age |-> age, income |-> income, gender |-> gender, caste |-> caste,
     district |-> district, occupation |-> occupation, location |-> location,
     hk_quota |-> None]

\* raw form values for age and income: missing, empty, the decimal strings
\* around the limits, and strings int() treats in each of its ways
AgeRaw ==
    {None, Str(<<>>)}
    \cup {Str(str(n)) : n \in {AGE_MIN - 1, AGE_MIN, AGE_MAX, AGE_MAX + 1} \cup 0..MaxVal}
    \cup {Str(<<"a">>), Str(<<"1", ".", "5">>), Str(<<" ", "7", " ">>),
          Str(<<"+", "7">>), Str(<<"1", "_", "0">>), Str(<<" ">>), Str(<<"-">>),
          Str(<<"-", "0">>)}

IncomeRaw ==
    {None, Str(<<>>)}
    \cup {Str(str(n)) : n \in {INCOME_MIN - 1, INCOME_MIN} \cup 0..MaxVal}
    \cup {Str(<<"a">>), Str(<<"1", ".", "5">>)}

FieldRaw == {None, Str(<<>>), Str(<<"x">>)}

ValidateInputs ==
    {UserInput(a, i, g, c, d, o, l) :
        a \in AgeRaw, i \in IncomeRaw, g \in FieldRaw, c \in FieldRaw,
        d \in FieldRaw, o \in FieldRaw, l \in FieldRaw}

\* users of the filter: valid ones, and three the validator rejects
FilterUsers ==
    {UserInput(Str(str(a)), Str(str(i)), g, c, Str(<<"d">>), Str(<<"w">>), Str(<<"r">>)) :
        a \in 0..MaxVal, i \in 0..MaxVal,
        g \in {Str(<<"f">>), Str(<<"M">>)},
        c \in {Str(<<"s", "c">>), Str(<<"G">>)}}
    \cup {UserInput(a, Str(<<"1">>), g, Str(<<"G">>), Str(<<"d">>), Str(<<"w">>), Str(<<"r">>)) :
            a \in {None, Str(<<"1", "5", "1">>)}, g \in {None, Str(<<"f">>)}}

ALL == <<"a", "l", "l">>

ANY == <<"a", "n", "y">>

\* the ranges lo <= hi within 0..MaxVal, and one that is upside down
Pairs ==
    {List(<<p[1], p[2]>>) : p \in {q \in (0..MaxVal) \X (0..MaxVal) : q[1] <= q[2]}}
    \cup {List(<<MaxVal, 0>>)}

\* the criteria a scheme may put on an axis, in the shapes filter_schemes
\* handles without raising: lists of str, a pair of numbers, a number
Opts(axis) ==
    CASE axis = "age_range" -> {List(<<>>)} \cup Pairs
      [] axis = "income_limit" ->
            {List(<<>>)} \cup {Num(n) : n \in 0..MaxVal} \cup Pairs
      [] axis = "gender" ->
            {List(<<>>), List(<< <<"A", "l", "l">> >>), List(<<ANY>>),
             List(<< <<"F">> >>), List(<< <<"x">>, <<"m">> >>)}
      [] axis = "caste" ->
            {List(<<>>), List(<< <<"x">>, <<"A", "L", "L">> >>), List(<<ANY>>),
             List(<< <<"S", "C">> >>), List(<< <<"x">>, <<"g">> >>)}
      [] axis = "occupation" ->
            {List(<<>>), List(<< <<"A", "n", "Y">> >>), List(<<ALL>>),
             List(<< <<"W">> >>), List(<< <<"x">> >>)}
      [] axis = "location" ->
            {List(<<>>), List(<< <<"a", "l", "L">> >>), List(<<ANY>>),
             List(<< <<"R">> >>), List(<< <<"x">> >>)}

\* eligibility dicts with at most two axes present
RichEligibility ==
    {NoEligibility}
    \cup UNION {{[NoEligibility EXCEPT ![x] = o] : o \in Opts(x)} : x \in Axes}
    \cup UNION {{[NoEligibility EXCEPT ![p[1]] = o1, ![p[2]] = o2] :
                    o1 \in Opts(p[1]), o2 \in Opts(p[2])} :
                p \in {q \in Axes \X Axes : q[1] # q[2]}}

\* three schemes for the longer lists: unconstrained, one axis, all six axes
SmallSchemes ==
    {Scheme(Id(1), NoEligibility, NoStep2),
     Scheme(Id(2), [NoEligibility EXCEPT !["gender"] = List(<< <<"F">> >>)], NoStep2),
     Scheme(Id(3),
            [a \in Axes |->
                CASE a = "age_range" -> List(<<1, MaxVal>>)
                  [] a = "income_limit" -> Num(1)
                  [] a = "gender" -> List(<< <<"m">>, <<"f">> >>)
                  [] a = "caste" -> List(<< <<"g">> >>)
                  [] a = "occupation" -> List(<< <<"w">> >>)
                  [] a = "location" -> List(<< <<"r">> >>)],
            NoStep2)}

SeqsUpTo(S, n) == UNION {[1..k -> S] : k \in 0..n}

FilterLists ==
    {<<Scheme(Id(1), e, NoStep2)>> : e \in RichEligibility}
    \cup SeqsUpTo(SmallSchemes, MaxSchemes)

\* schemes as evaluate_step2 may meet them: with and without an id, with
\* every shape of "step2_question"
Step2Questions ==
    {NoStep2,
     Question(None, "absent", <<>>),
     Question(None, "str", <<"y", "e", "s">>),
     Question(Str(<<>>), "str", <<"y", "e", "s">>),
     Question(Str(<<"q">>), "absent", <<>>),
     Question(Str(<<"q">>), "null", <<>>),
     Question(Str(<<"q">>), "str", <<"Y", "e", "S">>)}

Step2Schemes ==
    {Scheme(Id(1), NoEligibility, q) : q \in Step2Questions}
    \cup {Scheme(NoId, NoEligibility, Question(Str(<<"q">>), "str", <<"y", "e", "s">>)),
          Scheme(Id(2), NoEligibility, Question(Str(<<"q">>), "str", <<"y", "e", "s">>))}

Step2Lists == SeqsUpTo(Step2Schemes, MaxSchemes)

AnswerKeys == {<<"1">>, <<"2">>}

AnswerValues == {<<"Y", "E", "S">>, <<"n", "o">>}

\* every mapping from some of the keys to submitted answers
AnswerMaps == UNION {[K -> AnswerValues] : K \in SUBSET AnswerKeys}

AValidUser ==
    UserInput(Str(<<"3", "0">>), Str(<<"0">>), Str(<<"f">>), Str(<<"G">>),
              Str(<<"d">>), Str(<<"w">>), Str(<<"r">>))

(* ------------------------------ the calls ----------------------------- *)

IdleFilterReturn == [iserr |-> FALSE, error |-> "", list |-> <<>>]

\* the arguments of the calls (data, schemes: the objects the caller holds),
\* the last function called, the answers it was given and what it returned
CallArgs(data, schemes) ==
    [fn |-> "none", data |-> data, schemes |-> schemes, answers |-> <<>>,
     vret |-> ReturnTrue, fret |-> IdleFilterReturn, raised |-> "none"]

EmptySession ==
    [has_matched |-> FALSE, matched_schemes |-> <<>>,
     has_lang |-> FALSE, user_language |-> ""]

NoResponse ==
    [route |-> "none", template |-> "none", status |-> 0, language |-> "",
     error_message |-> "", schemes |-> <<>>, show_final |-> FALSE]

NoFile == [state |-> "missing", content |-> <<>>]

\* what the checks remember of the latest request: the session it found, the
\* validator's verdict, the list evaluate_step2 was run on, and the matches the
\* latest successful /results stored; overwrote: the latest evaluate_step2 call
\* changed a final_eligible that was already set
Ghost0 ==
    [before |-> EmptySession, validation |-> "none", validation_msg |-> "",
     step2_ran |-> FALSE, step2_on |-> <<>>,
     stored |-> FALSE, stored_list |-> <<>>, stored_lang |-> "",
     overwrote |-> FALSE]

AppIdle ==
    /\ schemes_file = NoFile
    /\ session = EmptySession
    /\ response = NoResponse
    /\ ghost = Ghost0

CallValidateInput ==
    /\ call' = [call EXCEPT !.fn = "validate_input",
                            !.vret = validate_input(call.data),
                            !.fret = IdleFilterReturn,
                            !.raised = "none"]
    /\ UNCHANGED <<schemes_file, session, response, ghost>>

CallFilterSchemes ==
    /\ call' = [call EXCEPT !.fn = "filter_schemes",
                            !.vret = ReturnTrue,
                            !.fret = filter_schemes(call.schemes, call.data),
                            !.raised = "none"]
    /\ UNCHANGED <<schemes_file, session, response, ghost>>

CallEvaluateStep2(answers) ==
    LET r == evaluate_step2(call.schemes, answers)
    IN  /\ call' = [call EXCEPT !.fn = "evaluate_step2",
                                !.answers = answers,
                                !.schemes = r.schemes,
                                !.vret = ReturnTrue,
                                !.fret = IdleFilterReturn,
                                !.raised = r.raised]
        /\ ghost' = [ghost EXCEPT !.overwrote =
                        \E i \in 1..Len(call.schemes) :
                            /\ call.schemes[i].final_eligible.set
                            /\ r.schemes[i].final_eligible # call.schemes[i].final_eligible]
        /\ UNCHANGED <<schemes_file, session, response>>

InitValidate == AppIdle /\ \E d \in ValidateInputs : call = CallArgs(d, <<>>)

NextValidate == CallValidateInput

SpecValidate == InitValidate /\ [][NextValidate]_vars

InitFilter ==
    AppIdle /\ \E d \in FilterUsers : \E l \in FilterLists : call = CallArgs(d, l)

NextFilter == CallFilterSchemes

SpecFilter == InitFilter /\ [][NextFilter]_vars

InitStep2 == AppIdle /\ \E l \in Step2Lists : call = CallArgs(AValidUser, l)

NextStep2 ==
    \/ CallValidateInput
    \/ CallFilterSchemes
    \/ \E a \in AnswerMaps : CallEvaluateStep2(a)

SpecStep2 == InitStep2 /\ [][NextStep2]_vars

(* ------------------------------ app.py -------------------------------- *)

\* the keys of the translations dictionary
translations == {"en", "kn"}

NoLang == [some |-> FALSE, s |-> ""]

Lang(l) == [some |-> TRUE, s |-> l]

\* lang = ....get(key, "en"); if lang not in translations: lang = "en"
LangOrEn(l) ==
    LET lang == IF l.some THEN l.s ELSE "en"
    IN  IF lang \notin translations THEN "en" ELSE lang

Render(route, template, status, lang, msg, schemes, show_final) ==
    [route |-> route, template |-> template, status |-> status, language |-> lang,
     error_message |-> msg, schemes |-> schemes, show_final |-> show_final]

\* mutant: a failed validation drops what the session held
SessionAfterResults_clears(matched_schemes, lang) ==
    IF matched_schemes.iserr THEN EmptySession
    ELSE [has_matched |-> TRUE, matched_schemes |-> matched_schemes.list,
          has_lang |-> TRUE, user_language |-> lang]

\* session['matched_schemes'] = matched_schemes; session['user_language'] = lang,
\* reached only when filter_schemes returned no error
SessionAfterResults(matched_schemes, lang) ==
    IF matched_schemes.iserr THEN session
    ELSE [has_matched |-> TRUE, matched_schemes |-> matched_schemes.list,
          has_lang |-> TRUE, user_language |-> lang]

\* the response of /results once schemes.json is loaded
ResponseAfterResults(matched_schemes, lang) ==
    IF matched_schemes.iserr
    THEN Render("results", "form.html", 200, lang, matched_schemes.error, <<>>, FALSE)
    ELSE Render("results", "results.html", 200, lang, "", matched_schemes.list, FALSE)

\* POST /results.  The 400 page carries the exception's text after the
\* message given here.
results(form) ==
    LET lang == LangOrEn(form.language)
        user_input == form.user_input
        matched_schemes == filter_schemes(schemes_file.content, user_input)
    IN  /\ call.fn = "app"
        /\ CASE schemes_file.state = "missing" ->
                  /\ response' = Render("results", "error.html", 404, lang,
                                        "Schemes data file not found.", <<>>, FALSE)
                  /\ session' = session
                  /\ ghost' = [ghost EXCEPT !.before = session, !.validation = "none",
                                            !.validation_msg = "", !.step2_ran = FALSE,
                                            !.step2_on = <<>>]
             [] schemes_file.state = "badjson" ->
                  /\ response' = Render("results", "error.html", 400, lang,
                                        "Invalid input or data format error", <<>>, FALSE)
                  /\ session' = session
                  /\ ghost' = [ghost EXCEPT !.before = session, !.validation = "none",
                                            !.validation_msg = "", !.step2_ran = FALSE,
                                            !.step2_on = <<>>]
             [] schemes_file.state = "ok" ->
                  /\ response' = ResponseAfterResults(matched_schemes, lang)
                  /\ session' = SessionAfterResults(matched_schemes, lang)
                  /\ ghost' =
                        IF validate_input(user_input).isstr
                        THEN [ghost EXCEPT !.before = session, !.validation = "failed",
                                           !.validation_msg = validate_input(user_input).msg,
                                           !.step2_ran = FALSE, !.step2_on = <<>>]
                        ELSE [ghost EXCEPT !.before = session, !.validation = "passed",
                                           !.validation_msg = "",
                                           !.step2_ran = FALSE, !.step2_on = <<>>,
                                           !.stored = TRUE,
                                           !.stored_list = FilterLoop(schemes_file.content, user_input, 1, <<>>),
                                           !.stored_lang = lang]
        /\ UNCHANGED <<call, schemes_file>>

\* matched_schemes = session.get('matched_schemes', [])
SessionMatched == IF session.has_matched THEN session.matched_schemes ELSE <<>>

\* step2_answers: the form items whose key isdigit()
Step2Answers(form) == [k \in {x \in DOMAIN form : isdigit(x)} |-> form[k]]

\* [s for s in final_evaluated_schemes if s.get("final_eligible")]
FinalDisplay(schemes) ==
    LET Shown(s) == s.final_eligible.set /\ s.final_eligible.v
    IN  SelectSeq(schemes, Shown)

\* the response of /finalize once the session holds matches
ResponseAfterFinalize(evaluated, lang) ==
    IF evaluated.raised # "none"
    THEN Render("finalize", "error.html", 500, lang,
                "An unexpected server error occurred during finalization.", <<>>, FALSE)
    ELSE Render("finalize", "results.html", 200, lang, "", FinalDisplay(evaluated.schemes), TRUE)

\* whether /finalize goes on to evaluate_step2: if not matched_schemes it
\* redirects to index instead
FinalizeEvaluates(matched_schemes) == matched_schemes # <<>>

\* POST /finalize.  evaluate_step2 changes the dicts held by the session
\* object in place without assigning to the session; whether the next request
\* sees the flags is up to the session store, so both outcomes are allowed.
finalize(form) ==
    LET lang == LangOrEn(IF session.has_lang THEN Lang(session.user_language) ELSE NoLang)
        matched_schemes == SessionMatched
        evaluated == evaluate_step2(matched_schemes, Step2Answers(form))
    IN  /\ call.fn = "app"
        /\ IF ~FinalizeEvaluates(matched_schemes)
           THEN /\ response' = Render("finalize", "redirect:index", 302, "", "", <<>>, FALSE)
                /\ session' = session
                /\ ghost' = [ghost EXCEPT !.before = session, !.validation = "none",
                                          !.validation_msg = "", !.step2_ran = FALSE,
                                          !.step2_on = <<>>]
           ELSE /\ response' = ResponseAfterFinalize(evaluated, lang)
                /\ \E kept \in BOOLEAN :
                        session' = IF kept
                                   THEN [session EXCEPT !.matched_schemes = evaluated.schemes]
                                   ELSE session
                /\ ghost' = [ghost EXCEPT !.before = session, !.validation = "none",
                                          !.validation_msg = "", !.step2_ran = TRUE,
                                          !.step2_on = matched_schemes]
        /\ UNCHANGED <<call, schemes_file>>

\* the requests of one session
AppUsers ==
    {UserInput(Str(<<"3", "0">>), Str(<<"0">>), g, Str(<<"G">>), Str(<<"d">>),
               Str(<<"w">>), Str(<<"r">>)) : g \in {Str(<<"f">>), Str(<<"M">>), None}}
    \cup {UserInput(Str(<<"1", "5", "1">>), Str(<<"0">>), Str(<<"f">>), Str(<<"G">>),
                    Str(<<"d">>), Str(<<"w">>), Str(<<"r">>))}

ResultsForms ==
    [language : {NoLang, Lang("en"), Lang("kn"), Lang("xx")}, user_input : AppUsers]

FinalizeForms ==
    UNION {[K -> {<<"Y", "E", "S">>, <<"n", "o">>}] :
            K \in SUBSET {<<"1">>, <<"2">>, <<"l", "a", "n", "g">>}}

AppSchemes ==
    {Scheme(Id(1), NoEligibility, NoStep2),
     Scheme(Id(2), [NoEligibility EXCEPT !["gender"] = List(<< <<"F">> >>)],
            Question(Str(<<"q">>), "str", <<"y", "e", "s">>)),
     Scheme(NoId, [NoEligibility EXCEPT !["gender"] = List(<< <<"m">> >>)],
            Question(Str(<<"q">>), "str", <<"y", "e", "s">>))}

SchemesFiles ==
    {NoFile, [state |-> "badjson", content |-> <<>>]}
    \cup {[state |-> "ok", content |-> l] : l \in SeqsUpTo(AppSchemes, MaxSchemes)}

InitApp ==
    /\ call = [CallArgs(AValidUser, <<>>) EXCEPT !.fn = "app"]
    /\ schemes_file \in SchemesFiles
    /\ session = EmptySession
    /\ response = NoResponse
    /\ ghost = Ghost0

NextApp ==
    \/ \E form \in ResultsForms : results(form)
    \/ \E form \in FinalizeForms : finalize(form)

SpecApp == InitApp /\ [][NextApp]_vars

(* ======================= claims: validate_input ======================= *)

Present(x) == x.some /\ x.s # <<>>

Numeric(x) == Present(x) /\ int(x.s).ok

AgeAccepted(d) == Numeric(d.age) /\ int(d.age.s).v >= 0 /\ int(d.age.s).v <= 150

IncomeAccepted(d) == Numeric(d.income) /\ int(d.income.s).v >= 0

Validated == call.fn = "validate_input"

\* C4: validate_input returns success exactly when age is present, numeric
\* and within 0..150, income is present, numeric and >= 0, and gender, caste,
\* district, occupation and location are present and non-empty; otherwise it
\* returns a non-empty error string.
C4_ValidateExact ==
    Validated =>
        LET d == call.data
            good == /\ AgeAccepted(d)
                    /\ IncomeAccepted(d)
                    /\ \A i \in 1..5 : Present(d[required_fields[i]])
        IN  /\ (call.vret = ReturnTrue) <=> good
            /\ ~good => (call.vret.isstr /\ call.vret.msg # "")

\* age 150 and income 0 are accepted, with every other field given
C4_Witness ==
    /\ Validated
    /\ call.data.age = Str(<<"1", "5", "0">>)
    /\ call.data.income = Str(<<"0">>)
    /\ call.vret = ReturnTrue

AgeErrors ==
    {"Age is a required field.", "Age must be between 0 and 150.",
     "Invalid age value. Please enter a number."}

IncomeErrors ==
    {"Annual Income is a required field.", "Annual Income cannot be negative.",
     "Invalid annual income value. Please select a valid range."}

FieldError(f) ==
    CASE f = "gender" -> "Missing required field: Gender."
      [] f = "caste" -> "Missing required field: Caste."
      [] f = "district" -> "Missing required field: District."
      [] f = "occupation" -> "Missing required field: Occupation."
      [] f = "location" -> "Missing required field: Location."

CheckOrder == <<"age", "income", "gender", "caste", "district", "occupation", "location">>

ConditionFails(d, f) ==
    CASE f = "age" -> ~AgeAccepted(d)
      [] f = "income" -> ~IncomeAccepted(d)
      [] OTHER -> ~Present(d[f])

ErrorsOf(f) ==
    CASE f = "age" -> AgeErrors
      [] f = "income" -> IncomeErrors
      [] OTHER -> {FieldError(f)}

\* C5: the error returned is the one of the first failing condition in the
\* order age, income, gender, caste, district, occupation, location; a bad age
\* gives an age error whatever the other fields hold.
C5_FirstFailureOnly ==
    Validated =>
        \A k \in 1..7 :
            (/\ ConditionFails(call.data, CheckOrder[k])
             /\ \A j \in 1..(k - 1) : ~ConditionFails(call.data, CheckOrder[j]))
            => (call.vret.isstr /\ call.vret.msg \in ErrorsOf(CheckOrder[k]))

\* age out of range, income not a number and gender missing: the age error
C5_Witness ==
    /\ Validated
    /\ call.data.age = Str(<<"1", "5", "1">>)
    /\ call.data.income = Str(<<"a">>)
    /\ call.data.gender = None
    /\ call.vret = ReturnStr("Age must be between 0 and 150.")

(* ======================= claims: filter_schemes ======================= *)

SetAxes == {"gender", "caste", "occupation", "location"}

Sentinel(axis) == IF axis = "occupation" THEN ANY ELSE ALL

AgeRangePasses(c, age) ==
    \/ c.kind = "absent"
    \/ c.kind = "list" /\ c.v = <<>>
    \/ c.kind = "list" /\ c.v # <<>> /\ c.v[1] <= age /\ age <= c.v[2]

InSetPasses(c, axis, value) ==
    \/ c.kind = "absent"
    \/ c.kind = "list" /\ c.v = <<>>
    \/ \E i \in 1..Len(c.v) : lower(c.v[i]) \in {Sentinel(axis), lower(value)}

IncomeLimitPasses(c, income) ==
    \/ c.kind = "absent"
    \/ c.kind = "num" /\ income <= c.n
    \/ c.kind = "list" /\ Len(c.v) = 2 /\ c.v[1] <= income /\ income <= c.v[2]
    \/ c.kind = "list" /\ Len(c.v) # 2

SixChecksPass(s, u) ==
    /\ AgeRangePasses(s.eligibility.age_range, int(u.age.s).v)
    /\ InSetPasses(s.eligibility.gender, "gender", u.gender.s)
    /\ InSetPasses(s.eligibility.caste, "caste", u.caste.s)
    /\ IncomeLimitPasses(s.eligibility.income_limit, int(u.income.s).v)
    /\ InSetPasses(s.eligibility.occupation, "occupation", u.occupation.s)
    /\ InSetPasses(s.eligibility.location, "location", u.location.s)

FilteredValid == call.fn = "filter_schemes" /\ ~validate_input(call.data).isstr

\* C1: for a user input that passes validate_input, filter_schemes returns
\* exactly the schemes all of whose six checks pass, in the order of the input
\* list, none added, duplicated or reordered.
C1_FilterExact ==
    FilteredValid =>
        LET Test(s) == SixChecksPass(s, call.data)
        IN  ~call.fret.iserr /\ call.fret.list = SelectSeq(call.schemes, Test)

\* of two schemes the first is dropped and the second kept
C1_Witness ==
    /\ FilteredValid
    /\ Len(call.schemes) >= 2
    /\ Len(call.fret.list) = 1
    /\ call.fret.list[1] = call.schemes[2]
    /\ call.schemes[1] # call.schemes[2]

Unconstrained(s, axis) ==
    LET c == s.eligibility[axis]
    IN  \/ c.kind = "absent"
        \/ c.kind = "list" /\ c.v = <<>>
        \/ axis \in SetAxes /\ \E i \in 1..Len(c.v) : lower(c.v[i]) = Sentinel(axis)

\* the user with another valid value on the axis, the rest as it is
ProbeUsers(u, axis) ==
    CASE axis = "age_range" ->
            {[u EXCEPT !.age = Str(str(n))] : n \in {0, MaxVal + 1, 150}}
      [] axis = "income_limit" ->
            {[u EXCEPT !.income = Str(str(n))] : n \in {0, MaxVal + 1, 1000}}
      [] OTHER ->
            {[u EXCEPT ![axis] = Str(v)] : v \in {<<"f">>, <<"M">>, <<"x">>, ALL}}

Eligible(s, u) == filter_schemes(<<s>>, u).list # <<>>

\* C2: a scheme whose criterion on an axis is absent, empty or (gender, caste,
\* occupation, location) holds the axis's sentinel in any letter case is
\* eligible or not regardless of the user's value on that axis.
C2_UnconstrainedAxis ==
    FilteredValid =>
        \A i \in 1..Len(call.schemes) : \A axis \in Axes :
            Unconstrained(call.schemes[i], axis) =>
                \A u \in ProbeUsers(call.data, axis) :
                    Eligible(call.schemes[i], u) = InList(call.schemes[i], call.fret.list)

\* a scheme with gender ["All"] and one more criterion, kept for a user
C2_Witness ==
    /\ FilteredValid
    /\ Len(call.schemes) = 1
    /\ call.schemes[1].eligibility.gender = List(<< <<"A", "l", "l">> >>)
    /\ call.schemes[1].eligibility.income_limit = Num(1)
    /\ call.data.gender = Str(<<"M">>)
    /\ call.fret.list = call.schemes

\* C3: when the other axes pass, a scalar income_limit L admits exactly the
\* incomes <= L (L = 0 included), and a range [lo, hi] exactly lo..hi.
C3_IncomeBounds ==
    FilteredValid =>
        \A i \in 1..Len(call.schemes) :
            LET s == call.schemes[i]
                c == s.eligibility.income_limit
                income == int(call.data.income.s).v
                others == Eligible([s EXCEPT !.eligibility["income_limit"] = Absent], call.data)
                kept == InList(s, call.fret.list)
            IN  /\ (others /\ c.kind = "num") => (kept <=> income <= c.n)
                /\ (others /\ c.kind = "list" /\ Len(c.v) = 2) =>
                        (kept <=> (c.v[1] <= income /\ income <= c.v[2]))
                /\ ~others => ~kept

\* income 0 against the scalar limit 0: eligible
C3_Witness ==
    /\ FilteredValid
    /\ Len(call.schemes) = 1
    /\ call.schemes[1].eligibility.income_limit = Num(0)
    /\ call.data.income = Str(<<"0">>)
    /\ call.fret.list = call.schemes

(* ======================= claims: evaluate_step2 ======================= *)

Evaluated == call.fn = "evaluate_step2"

\* the answer submitted under the scheme's identifier as a string, "" when
\* there is none
Submitted(s, answers) ==
    IF str(s.id.v) \in DOMAIN answers THEN answers[str(s.id.v)] ELSE <<>>

Expected(s) ==
    IF s.step2_question.expected_kind = "str" THEN s.step2_question.expected ELSE <<>>

CaseBlindMatch(s, answers) == lower(Submitted(s, answers)) = lower(Expected(s))

\* a "step2_question" entry is there (and is not the empty dict)
Step2Present(s) ==
    /\ s.step2_question.kind = "dict"
    /\ (s.step2_question.question.some \/ s.step2_question.expected_kind # "absent")

QuestionTextGiven(s) == Step2Present(s) /\ Present(s.step2_question.question)

C7_NoQuestionEligible ==
    Evaluated =>
        \A i \in 1..Len(call.schemes) :
            call.schemes[i].step2_question.kind = "absent"
                => call.schemes[i].final_eligible = Flag(TRUE)

\* C8: evaluate_step2 never ends in an error: it completes and every scheme
\* of the list has a boolean final_eligible.
C8_NoErrorOutcome ==
    Evaluated =>
        /\ call.raised = "none"
        /\ \A i \in 1..Len(call.schemes) : call.schemes[i].final_eligible.set

StripFlag(s) == [s EXCEPT !.final_eligible = Unset]

\* what the latest answers alone make of a scheme
LatestValue(s, answers) ==
    IF QuestionTextGiven(s) THEN CaseBlindMatch(s, answers) ELSE TRUE

\* C10: no call changes the user input; validate_input and filter_schemes
\* leave every scheme as it is; evaluate_step2 changes nothing but the
\* final_eligible key, keeps the list's length and order, and every
\* final_eligible it leaves reflects the latest answers only.
C10_OnlyFlagMutated ==
    [][/\ call'.data = call.data
       /\ Len(call'.schemes) = Len(call.schemes)
       /\ \A i \in 1..Len(call.schemes) :
            StripFlag(call'.schemes[i]) = StripFlag(call.schemes[i])
       /\ call'.fn \in {"validate_input", "filter_schemes"}
            => call'.schemes = call.schemes
       /\ call'.fn = "evaluate_step2" =>
            \A i \in 1..Len(call'.schemes) :
                call'.schemes[i].final_eligible.set =>
                    call'.schemes[i].final_eligible.v
                        = LatestValue(call'.schemes[i], call'.answers)]_vars

\* a second call with no answer turned a true final_eligible into false
C10_Witness ==
    /\ Evaluated
    /\ ghost.overwrote
    /\ call.answers = <<>>
    /\ Len(call.schemes) = 2
    /\ call.schemes[1].final_eligible = Flag(FALSE)
    /\ call.schemes[2].final_eligible = Flag(TRUE)

(* ========================== claims: session =========================== *)

StripFlags(l) == [i \in 1..Len(l) |-> StripFlag(l[i])]

\* the stage-one matches and the language a session holds
Held(s) ==
    [has_matched |-> s.has_matched, matched_schemes |-> StripFlags(s.matched_schemes),
     has_lang |-> s.has_lang, user_language |-> s.user_language]

\* C9: matches and language are written to the session only by a /results
\* whose input passed validation; a /results that fails validation answers
\* with the validator's message verbatim and leaves them as they were; a
\* /finalize that finds no stored matches redirects to the entry point
\* without evaluating step 2; step 2 only runs on the matches stored by the
\* latest successful /results.
C9_SessionHandoff ==
    /\ Held(session) # Held(ghost.before)
            => (response.route = "results" /\ ghost.validation = "passed")
    /\ (response.route = "results" /\ ghost.validation = "failed")
            => /\ session = ghost.before
               /\ response.template = "form.html"
               /\ response.error_message = ghost.validation_msg
    /\ (response.route = "finalize"
            /\ (~ghost.before.has_matched \/ ghost.before.matched_schemes = <<>>))
            => (response.template = "redirect:index" /\ ~ghost.step2_ran)
    /\ ghost.step2_ran
            => /\ response.route = "finalize"
               /\ ghost.stored
               /\ StripFlags(ghost.step2_on) = ghost.stored_list
               /\ ghost.step2_on = ghost.before.matched_schemes
    /\ ghost.stored
            => /\ Held(session).matched_schemes = ghost.stored_list
               /\ session.user_language = ghost.stored_lang

\* matches are stored, then a /results failing validation leaves them there
C9_Witness ==
    /\ response.route = "results"
    /\ ghost.validation = "failed"
    /\ response.error_message = "Age must be between 0 and 150."
    /\ session.has_matched
    /\ Len(session.matched_schemes) = 2
    /\ session.user_language = "kn"

====
